---- MODULE Spec2Model ----
(***************************************************************************)
(* Model of PyPharmer/Pharmacophores.py, compute_concensus_pharmacophore:  *)
(* the per-type clusterer (__compute_cluster), the cluster reducer         *)
(* (__compute_center_of_mass_and_radius) and the assembler loop.           *)
(*                                                                         *)
(* Units.  Coordinates are integers counting tenths of a distance unit, so *)
(* the point (10.1, 0, 0) is <<101, 0, 0>>, the proximity radius 1.5 is 15 *)
(* and the radius floors 1 and 0.5 are 10 and 5.  h_dist is counted in     *)
(* hundredths (0.17 is 17).  Quotients are kept exact as [num, den]        *)
(* records; a Euclidean norm that need not be rational is kept as its      *)
(* square.  Input points are drawn from pools whose pairwise distances are *)
(* whole numbers of tenths, so the distance matrix is exact.               *)
(***************************************************************************)
EXTENDS Integers, Sequences, FiniteSets, TLC

VARIABLES table, save_data_per_descriptor, h_dist,
          pc, gi, ci, descriptor_cluster, threshold,
          Links, Concensus, index, exported, error

vars == <<table, save_data_per_descriptor, h_dist, pc, gi, ci,
          descriptor_cluster, threshold, Links, Concensus, index,
          exported, error>>

---------------------------------------------------------------------------
(* Bounds of the model and constants of the program *)

\* most points of one feature type in a table of two feature types
MaxGroup == 3
\* most points in a table of a single feature type
MaxLine == 4

\* 0.17, in hundredths: the factor of the dendrogram cut
CutFactor == 17
\* 1.5, in tenths: the proximity radius of the weight count
Proximity == 15
\* 1, in tenths: the radius floor of a Hydrophobic cluster
HydrophobicFloor == 10
\* 0.5, in tenths: the radius floor of every other cluster
OtherFloor == 5

\* the colour of each feature type
color_code ==
    [n \in {"Hydrophobic", "HydrogenAcceptor", "HydrogenDonor", "Aromatic",
            "NegativeIon", "PositiveIon", "InclusionSphere", "Other",
            "PhenylalanineAnalog", "LeuValAnalog"} |->
        CASE n = "Hydrophobic" -> "green"
          [] n = "HydrogenAcceptor" -> "orange"
          [] n = "HydrogenDonor" -> "white"
          [] n = "Aromatic" -> "purple"
          [] n = "NegativeIon" -> "red"
          [] n = "PositiveIon" -> "navy"
          [] n = "InclusionSphere" -> "gray"
          [] n = "Other" -> "yellow"
          [] OTHER -> "pink"]

\* the feature types in the order groupby('name') iterates them (sorted keys)
SortedNames ==
    <<"Aromatic", "HydrogenAcceptor", "HydrogenDonor", "Hydrophobic",
      "InclusionSphere", "LeuValAnalog", "NegativeIon", "Other",
      "PhenylalanineAnalog", "PositiveIon">>

---------------------------------------------------------------------------
(* Arithmetic helpers *)

Max(a, b) == IF a >= b THEN a ELSE b

RECURSIVE SumSeq(_)
SumSeq(s) == IF s = <<>> THEN 0 ELSE Head(s) + SumSeq(Tail(s))

RECURSIVE MaxSeq(_)
MaxSeq(s) == IF Len(s) = 1 THEN s[1] ELSE Max(Head(s), MaxSeq(Tail(s)))

\* the integer square root, by bisection on lo..hi
RECURSIVE SqrtIn(_, _, _)
SqrtIn(s, lo, hi) ==
    IF lo >= hi THEN lo
    ELSE LET mid == (lo + hi + 1) \div 2
         IN  IF mid * mid <= s THEN SqrtIn(s, mid, hi) ELSE SqrtIn(s, lo, mid - 1)

Sqrt(s) == SqrtIn(s, 0, s)

Coords(row) == <<row.x, row.y, row.z>>

SqDist(p, q) ==
    (p[1] - q[1]) * (p[1] - q[1]) + (p[2] - q[2]) * (p[2] - q[2])
        + (p[3] - q[3]) * (p[3] - q[3])

---------------------------------------------------------------------------
(* scipy.spatial.distance_matrix, scipy.cluster.hierarchy.distance.pdist,  *)
(* linkage(method='complete') and fcluster(criterion='distance'), as       *)
(* __compute_cluster calls them                                            *)

\* distance_matrix(x=table[['x','y','z']], y=table[['x','y','z']]): the
\* square matrix of Euclidean distances between the rows' points
distance_matrix(rows) ==
    [i \in 1..Len(rows) |->
        [j \in 1..Len(rows) |-> Sqrt(SqDist(Coords(rows[i]), Coords(rows[j])))]]

\* the position of the pair {a, b} in a condensed distance vector
condensed_index(a, b) == IF a < b THEN <<a, b>> ELSE <<b, a>>

\* pdist(matrix): the ROWS of its argument are the observations, so this is
\* the Euclidean distance between row i and row j of the distance matrix,
\* for i < j.  Kept squared: linkage and fcluster only compare distances.
pdist(matrix) ==
    LET n == Len(matrix)
    IN  [p \in {q \in (1..n) \X (1..n) : q[1] < q[2]} |->
            SumSeq([k \in 1..n |->
                (matrix[p[1]][k] - matrix[p[2]][k])
                    * (matrix[p[1]][k] - matrix[p[2]][k])])]

\* faulty variant: the cut scaled by the smallest distance, dm.min()
dm_min(dm) == CHOOSE m \in {dm[p] : p \in DOMAIN dm} : \A p \in DOMAIN dm : m <= dm[p]

\* dm.max()
dm_max(dm) == CHOOSE m \in {dm[p] : p \in DOMAIN dm} : \A p \in DOMAIN dm : dm[p] <= m

\* nn_chain's scan `for i in range(n)` for the active cluster nearest to x;
\* y is the preferred previous chain element at distance cur (-1: infinity)
RECURSIVE nearest(_, _, _, _, _, _)
nearest(D, size, x, i, y, cur) ==
    IF i > Len(size) THEN <<y, cur>>
    ELSE IF size[i] = 0 \/ i = x THEN nearest(D, size, x, i + 1, y, cur)
    ELSE LET d == D[condensed_index(x, i)]
         IN  IF cur = -1 \/ d < cur
             THEN nearest(D, size, x, i + 1, i, d)
             ELSE nearest(D, size, x, i + 1, y, cur)

\* nn_chain's `while True`: extend the chain until its last two elements are
\* mutual nearest neighbours
RECURSIVE grow_chain(_, _, _)
grow_chain(D, size, chain) ==
    LET L == Len(chain)
        x == chain[L]
        prev == IF L > 1 THEN chain[L - 1] ELSE 0
        start == IF L > 1 THEN D[condensed_index(x, prev)] ELSE -1
        r == nearest(D, size, x, 1, prev, start)
    IN  IF L > 1 /\ r[1] = prev
        THEN [x |-> x, y |-> r[1], dist |-> r[2], chain |-> chain]
        ELSE grow_chain(D, size, Append(chain, r[1]))

\* complete linkage: the distance from i to the merger of x and y
new_dist_complete(d_xi, d_yi) == Max(d_xi, d_yi)

\* one pass of nn_chain's `for k in range(n - 1)`: find a pair of mutual
\* nearest neighbours, record the merge, update sizes and distances
nn_chain_step(st) ==
    LET n == Len(st.size)
        chain0 == IF st.chain = <<>>
                  THEN <<CHOOSE i \in 1..n :
                           st.size[i] > 0 /\ \A j \in 1..(i - 1) : st.size[j] = 0>>
                  ELSE st.chain
        g == grow_chain(st.D, st.size, chain0)
        x == IF g.x > g.y THEN g.y ELSE g.x
        y == IF g.x > g.y THEN g.x ELSE g.y
        nx == st.size[x]
        ny == st.size[y]
        size1 == [st.size EXCEPT ![x] = 0, ![y] = nx + ny]
        D1 == [p \in DOMAIN st.D |->
                 LET i == IF p[1] = y THEN p[2] ELSE p[1]
                 IN  IF y \in {p[1], p[2]} /\ size1[i] # 0
                     THEN new_dist_complete(st.D[condensed_index(i, x)], st.D[p])
                     ELSE st.D[p]]
    IN  [D |-> D1, size |-> size1,
         chain |-> SubSeq(g.chain, 1, Len(g.chain) - 2),
         Z |-> Append(st.Z, <<x, y, g.dist, nx + ny>>)]

RECURSIVE nn_chain_loop(_, _)
nn_chain_loop(st, k) == IF k = 0 THEN st ELSE nn_chain_loop(nn_chain_step(st), k - 1)

\* np.argsort(Z[:, 2], kind='mergesort'): a stable sort of the merges by distance
RECURSIVE insert_by_dist(_, _)
insert_by_dist(s, r) ==
    IF s = <<>> THEN <<r>>
    ELSE IF r[3] < Head(s)[3] THEN <<r>> \o s
    ELSE <<Head(s)>> \o insert_by_dist(Tail(s), r)

RECURSIVE sort_by_dist(_)
sort_by_dist(Z) ==
    IF Z = <<>> THEN <<>>
    ELSE insert_by_dist(sort_by_dist(SubSeq(Z, 1, Len(Z) - 1)), Z[Len(Z)])

\* LinkageUnionFind.find
RECURSIVE find(_, _)
find(parent, a) == IF parent[a] = 0 THEN a ELSE find(parent, parent[a])

\* label(Z, n): rename the merged clusters n+1, n+2, ... in merge order, the
\* smaller id of each merge first
RECURSIVE label(_, _, _, _)
label(Z, n, i, parent) ==
    IF i > Len(Z) THEN <<>>
    ELSE LET x_root == find(parent, Z[i][1])
             y_root == find(parent, Z[i][2])
             row == IF x_root < y_root
                    THEN <<x_root, y_root, Z[i][3], Z[i][4]>>
                    ELSE <<y_root, x_root, Z[i][3], Z[i][4]>>
         IN  <<row>> \o label(Z, n, i + 1,
                              [parent EXCEPT ![x_root] = n + i, ![y_root] = n + i])

\* sch.linkage(dm, method='complete') for n observations: rows
\* <<cluster, cluster, (squared) distance, size>>; observations are 1..n and
\* the cluster of row k is n + k
linkage(dm, n) ==
    LET st0 == [D |-> dm, size |-> [i \in 1..n |-> 1], chain |-> <<>>, Z |-> <<>>]
    IN  label(sort_by_dist(nn_chain_loop(st0, n - 1).Z), n, 1,
              [a \in 1..(2 * n - 1) |-> 0])

\* get_max_dist_for_each_cluster: the largest merge distance at or below a node
RECURSIVE max_dist(_, _, _)
max_dist(Z, n, node) ==
    IF node <= n THEN 0
    ELSE Max(Z[node - n][3],
             Max(max_dist(Z, n, Z[node - n][1]), max_dist(Z, n, Z[node - n][2])))

RECURSIVE leaves(_, _, _)
leaves(Z, n, node) ==
    IF node <= n THEN {node}
    ELSE leaves(Z, n, Z[node - n][1]) \cup leaves(Z, n, Z[node - n][2])

\* cluster_monocrit: walk the tree from `node`; a node whose max distance is
\* within the cutoff t (t.num / t.den, a squared distance) becomes one flat
\* cluster; otherwise its non-leaf children are numbered first, then its
\* leaf children as singletons
RECURSIVE cluster_monocrit(_, _, _, _, _)
cluster_monocrit(Z, n, t, node, acc) ==
    LET lc == Z[node - n][1]
        rc == Z[node - n][2]
    IN  IF max_dist(Z, n, node) * t.den <= t.num
        THEN [T |-> [i \in 1..n |-> IF i \in leaves(Z, n, node)
                                     THEN acc.n_cluster + 1 ELSE acc.T[i]],
              n_cluster |-> acc.n_cluster + 1]
        ELSE LET a1 == IF lc > n THEN cluster_monocrit(Z, n, t, lc, acc) ELSE acc
                 a2 == IF rc > n THEN cluster_monocrit(Z, n, t, rc, a1) ELSE a1
                 a3 == IF lc <= n
                       THEN [T |-> [a2.T EXCEPT ![lc] = a2.n_cluster + 1],
                             n_cluster |-> a2.n_cluster + 1]
                       ELSE a2
             IN  IF rc <= n
                 THEN [T |-> [a3.T EXCEPT ![rc] = a3.n_cluster + 1],
                       n_cluster |-> a3.n_cluster + 1]
                 ELSE a3

\* faulty variant: cluster ids counted from 0
fcluster_from_zero(Z, n, t) ==
    LET T == cluster_monocrit(Z, n, t, 2 * n - 1,
                              [T |-> [i \in 1..n |-> 0], n_cluster |-> 0]).T
    IN  [i \in 1..n |-> T[i] - 1]

\* sch.fcluster(linkage, t, 'distance'): the flat cluster id of each observation
fcluster(Z, n, t) ==
    cluster_monocrit(Z, n, t, 2 * n - 1,
                     [T |-> [i \in 1..n |-> 0], n_cluster |-> 0]).T

---------------------------------------------------------------------------
(* The pandas operations the function uses *)

\* the values of a finite set of integers in ascending order
RECURSIVE Ascending(_)
Ascending(S) ==
    IF S = {} THEN <<>>
    ELSE LET m == CHOOSE a \in S : \A b \in S : a <= b
         IN  <<m>> \o Ascending(S \ {m})

\* table.groupby('name').groups: the distinct names, sorted
groups(tbl) ==
    LET Present(n) == \E i \in 1..Len(tbl) : tbl[i].name = n
    IN  SelectSeq(SortedNames, Present)

\* Descriptors.get_group(group): the rows of one name, in table order
get_group(tbl, g) ==
    LET Named(row) == row.name = g
    IN  SelectSeq(tbl, Named)

\* descriptor_cluster.groupby('cluster').groups: the cluster ids, sorted
cluster_groups(tbl) == Ascending({tbl[i].cluster : i \in 1..Len(tbl)})

\* clusters.get_group(cg)
get_cluster(tbl, cg) ==
    LET InCluster(row) == row.cluster = cg
    IN  SelectSeq(tbl, InCluster)

---------------------------------------------------------------------------
(* __compute_cluster and __compute_center_of_mass_and_radius *)

\* faulty variant: a point does not count itself
weights_without_self(matrix) ==
    [i \in 1..Len(matrix) |->
        Cardinality({j \in 1..Len(matrix) : j # i /\ matrix[i][j] <= Proximity})]

\* the weight of each row of the distance matrix: the number of its entries
\* (its own zero included) within the proximity radius
weights(matrix) ==
    [i \in 1..Len(matrix) |->
        Cardinality({j \in 1..Len(matrix) : matrix[i][j] <= Proximity})]

\* the cut handed to fcluster, 0.17 * dm.max(), squared: num / den
cut_threshold(dm) ==
    [num |-> CutFactor * CutFactor * dm_max(dm), den |-> 100 * 100]

\* __compute_cluster(table).  With more than 2 rows: the rows with their
\* cluster, weight and balance columns, the linkage and the matrix.  With 2
\* rows or fewer the names linkage and matrix are never bound and the
\* return statement raises UnboundLocalError.
compute_cluster(tbl) ==
    IF Len(tbl) > 2
    THEN LET n == Len(tbl)
             matrix == distance_matrix(tbl)
             dm == pdist(matrix)
             t == cut_threshold(dm)
             Z == linkage(dm, n)
             clusters == fcluster(Z, n, t)
             weight == weights(matrix)
             total == SumSeq(weight)
         IN  [raised |-> FALSE, linkage |-> Z, matrix |-> matrix, threshold |-> t,
              table |-> [i \in 1..n |->
                  [name |-> tbl[i].name, x |-> tbl[i].x, y |-> tbl[i].y,
                   z |-> tbl[i].z, color |-> tbl[i].color,
                   cluster |-> clusters[i], weight |-> weight[i],
                   balance |-> [num |-> weight[i], den |-> total]]]]
    ELSE [raised |-> TRUE, table |-> tbl]

\* np.average([x, y, z], axis=1, weights=weight): each coordinate as the
\* quotient num / den
center_of_mass(clus) ==
    LET W == SumSeq([i \in 1..Len(clus) |-> clus[i].weight])
        S(d) == SumSeq([i \in 1..Len(clus) |-> clus[i].weight * Coords(clus[i])[d]])
    IN  [d \in 1..3 |-> [num |-> S(d), den |-> W]]

\* (max over the members of ||center_of_mass - point|| / 2), squared: num / den
raw_radius(clus) ==
    LET c == center_of_mass(clus)
        Off(i, d) == c[d].num - c[d].den * Coords(clus[i])[d]
        N(i) == Off(i, 1) * Off(i, 1) + Off(i, 2) * Off(i, 2) + Off(i, 3) * Off(i, 3)
    IN  [num |-> MaxSeq([i \in 1..Len(clus) |-> N(i)]),
         den |-> 4 * c[1].den * c[1].den]

\* faulty variant: the floor 0.5 whatever the names
clamp_one_floor(raw, names) ==
    IF raw.num < OtherFloor * OtherFloor * raw.den
    THEN [num |-> OtherFloor * OtherFloor, den |-> 1]
    ELSE raw

\* the radius floor: 1 when 'Hydrophobic' is among the names of the rows,
\* 0.5 when it is not; the radius is kept squared
clamp(raw, names) ==
    IF raw.num < HydrophobicFloor * HydrophobicFloor * raw.den
          /\ "Hydrophobic" \in names
    THEN [num |-> HydrophobicFloor * HydrophobicFloor, den |-> 1]
    ELSE IF raw.num < OtherFloor * OtherFloor * raw.den
          /\ "Hydrophobic" \notin names
    THEN [num |-> OtherFloor * OtherFloor, den |-> 1]
    ELSE raw

\* __compute_center_of_mass_and_radius(table)
compute_center_of_mass_and_radius(clus) ==
    [center_of_mass |-> center_of_mass(clus),
     radius |-> clamp(raw_radius(clus), {clus[i].name : i \in 1..Len(clus)})]

\* the row the loop body writes at Concensus.loc[index] for cluster cg of group
consensus_row(group, cg, clus) ==
    LET r == compute_center_of_mass_and_radius(clus)
    IN  [name |-> group, cluster |-> cg,
         x |-> r.center_of_mass[1], y |-> r.center_of_mass[2],
         z |-> r.center_of_mass[3], radius |-> r.radius,
         color |-> clus[1].color, weight |-> Len(clus),
         balance |-> [num |-> SumSeq([i \in 1..Len(clus) |-> clus[i].balance.num]),
                      den |-> clus[1].balance.den * Len(clus)]]

---------------------------------------------------------------------------
(* The input tables *)

\* x coordinates of the points of a single-type table, all on the x axis
LinePool == <<0, 1, 6, 16, 18, 100, 101>>

\* the points of a two-type table: a triangle in space with sides 21, 12, 27
TrianglePool == <<(<<0, 0, 0>>), (<<6, 18, 9>>), (<<18, 18, 9>>)>>

LinePoints == [i \in 1..Len(LinePool) |-> <<LinePool[i], 0, 0>>]

Names == {"Aromatic", "Hydrophobic"}

\* the h_dist arguments tried: the default 0.17, and 0.5
HDists == {CutFactor, 50}

\* a row as parse_json_pharmacophore builds it (the colour is looked up)
Row(name, p) ==
    [name |-> name, x |-> p[1], y |-> p[2], z |-> p[3], color |-> color_code[name]]

NonDecreasing(k, m) ==
    {s \in [1..k -> 1..m] : \A i \in 1..(k - 1) : s[i] <= s[i + 1]}

\* the tables of at most maxk rows of one name with points of the pool
GroupTables(name, pool, maxk) ==
    UNION {{[i \in 1..k |-> Row(name, pool[s[i]])] : s \in NonDecreasing(k, Len(pool))}
              : k \in 0..maxk}

LineTables == UNION {GroupTables(nm, LinePoints, MaxLine) : nm \in Names}

MixedTables ==
    {h \o a : h \in GroupTables("Hydrophobic", TrianglePool, MaxGroup),
              a \in GroupTables("Aromatic", TrianglePool, MaxGroup)}

Tables == LineTables \cup MixedTables

---------------------------------------------------------------------------
(* compute_concensus_pharmacophore *)

Init ==
    /\ table \in Tables
    /\ save_data_per_descriptor \in BOOLEAN
    /\ h_dist \in HDists
    /\ pc = "group"
    /\ gi = 1
    /\ ci = 0
    /\ descriptor_cluster = <<>>
    /\ threshold = [num |-> 0, den |-> 1]
    /\ Links = <<>>
    /\ Concensus = <<>>
    /\ index = 1
    /\ exported = <<>>
    /\ error = "none"

Inputs == <<table, save_data_per_descriptor, h_dist>>

group == groups(table)[gi]

\* for group in Descriptors.groups: __compute_cluster on a group of more
\* than 2 rows, and Links[group] = {...}
ComputeCluster ==
    /\ pc = "group"
    /\ gi <= Len(groups(table))
    /\ LET r == compute_cluster(get_group(table, group))
       IN  /\ ~r.raised
           /\ descriptor_cluster' = r.table
           /\ threshold' = r.threshold
           /\ Links' = (group :> [matrix |-> r.matrix, linkage |-> r.linkage]) @@ Links
    /\ pc' = "save"
    /\ UNCHANGED <<Inputs, gi, ci, Concensus, index, exported, error>>

\* __compute_cluster on a group of 2 rows or fewer: the call raises
ComputeClusterRaises ==
    /\ pc = "group"
    /\ gi <= Len(groups(table))
    /\ compute_cluster(get_group(table, group)).raised
    /\ pc' = "raised"
    /\ error' = "UnboundLocalError"
    /\ UNCHANGED <<Inputs, gi, ci, descriptor_cluster, threshold, Links,
                   Concensus, index, exported>>

\* save_data_per_descriptor == True: the .pse and the .png are written
SaveData ==
    /\ pc = "save"
    /\ save_data_per_descriptor
    /\ exported' = Append(exported, group)
    /\ pc' = "reduce"
    /\ ci' = 1
    /\ UNCHANGED <<Inputs, gi, descriptor_cluster, threshold, Links, Concensus,
                   index, error>>

\* faulty variant: the failure is swallowed and the loop goes on
SaveDataFails_caught ==
    /\ pc = "save"
    /\ save_data_per_descriptor
    /\ pc' = "reduce"
    /\ ci' = 1
    /\ error' = "IOError"
    /\ UNCHANGED <<table, save_data_per_descriptor, h_dist, gi, descriptor_cluster,
                   threshold, Links, Concensus, index, exported>>

\* one of the two writes fails: nothing catches the exception
SaveDataFails ==
    /\ pc = "save"
    /\ save_data_per_descriptor
    /\ pc' = "raised"
    /\ error' = "IOError"
    /\ UNCHANGED <<Inputs, gi, ci, descriptor_cluster, threshold, Links,
                   Concensus, index, exported>>

\* else: pass
SkipSave ==
    /\ pc = "save"
    /\ ~save_data_per_descriptor
    /\ pc' = "reduce"
    /\ ci' = 1
    /\ UNCHANGED <<Inputs, gi, descriptor_cluster, threshold, Links, Concensus,
                   index, exported, error>>

\* faulty variant: index is not advanced, so the next row lands on this one
ReduceCluster_same_index ==
    /\ pc = "reduce"
    /\ ci <= Len(cluster_groups(descriptor_cluster))
    /\ LET cg == cluster_groups(descriptor_cluster)[ci]
       IN  Concensus' =
               (index :> consensus_row(groups(table)[gi], cg,
                                       get_cluster(descriptor_cluster, cg)))
                   @@ Concensus
    /\ ci' = ci + 1
    /\ UNCHANGED <<table, save_data_per_descriptor, h_dist, pc, gi,
                   descriptor_cluster, threshold, Links, index, exported, error>>

\* for cg in clusters.groups: one row of Concensus, index = index + 1
ReduceCluster ==
    /\ pc = "reduce"
    /\ ci <= Len(cluster_groups(descriptor_cluster))
    /\ LET cg == cluster_groups(descriptor_cluster)[ci]
       IN  Concensus' =
               (index :> consensus_row(group, cg, get_cluster(descriptor_cluster, cg)))
                   @@ Concensus
    /\ index' = index + 1
    /\ ci' = ci + 1
    /\ UNCHANGED <<Inputs, pc, gi, descriptor_cluster, threshold, Links,
                   exported, error>>

\* the clusters of the group are exhausted: on to the next group
NextGroup ==
    /\ pc = "reduce"
    /\ ci > Len(cluster_groups(descriptor_cluster))
    /\ gi' = gi + 1
    /\ pc' = "group"
    /\ UNCHANGED <<Inputs, ci, descriptor_cluster, threshold, Links, Concensus,
                   index, exported, error>>

\* return Concensus, Links
Return ==
    /\ pc = "group"
    /\ gi > Len(groups(table))
    /\ pc' = "done"
    /\ UNCHANGED <<Inputs, gi, ci, descriptor_cluster, threshold, Links,
                   Concensus, index, exported, error>>

Next ==
    \/ ComputeCluster
    \/ ComputeClusterRaises
    \/ SaveData
    \/ SaveDataFails
    \/ SkipSave
    \/ ReduceCluster
    \/ NextGroup
    \/ Return

Spec == Init /\ [][Next]_vars

---------------------------------------------------------------------------
(* Vocabulary of the properties *)

\* the clusterer has populated descriptor_cluster for the current group
Clustered == pc \in {"save", "reduce"}

SmallGroups == {g \in Names : Len(get_group(table, g)) \in 1..2}
LargeGroups == {g \in Names : Len(get_group(table, g)) > 2}

ClusterIds(tbl) == {tbl[i].cluster : i \in 1..Len(tbl)}

\* the rows of the consensus table that carry the name g
RowsOf(g) == {k \in DOMAIN Concensus : Concensus[k].name = g}

\* the position of a name in the iteration order of the groups
NamePos(n) == CHOOSE i \in 1..Len(groups(table)) : groups(table)[i] = n

\* the largest squared distance between two rows of a group
MaxSqDist(tbl) ==
    MaxSeq([i \in 1..Len(tbl) |->
        MaxSeq([j \in 1..Len(tbl) |-> SqDist(Coords(tbl[i]), Coords(tbl[j]))])])

\* the sum of a sequence of quotients, as a quotient
RECURSIVE RatSum(_)
RatSum(qs) ==
    IF qs = <<>> THEN [num |-> 0, den |-> 1]
    ELSE LET r == RatSum(Tail(qs))
         IN  [num |-> Head(qs).num * r.den + r.num * Head(qs).den,
              den |-> Head(qs).den * r.den]

\* a table of one feature type whose points all coincide
Identical(tbl) ==
    /\ Len(tbl) >= 1
    /\ \A i \in 1..Len(tbl) :
          tbl[i].name = tbl[1].name /\ Coords(tbl[i]) = Coords(tbl[1])

FloorOf(name) == IF name = "Hydrophobic" THEN HydrophobicFloor ELSE OtherFloor

---------------------------------------------------------------------------
(* C1 *)

\* C1: when the table holds a feature type with 2 points or fewer, that type
\* is skipped silently: the call does not raise, the returned table has no
\* row of that type, and every type with more than 2 points has its rows.
C1_SmallGroupSkipped ==
    SmallGroups # {} =>
        /\ error # "UnboundLocalError"
        /\ pc = "done" =>
              /\ \A g \in SmallGroups : RowsOf(g) = {}
              /\ \A g \in LargeGroups : RowsOf(g) # {}

---------------------------------------------------------------------------
(* C2 *)

\* C2: for a group of more than 2 points the dendrogram is cut at
\* h_dist * max(D), h_dist being the caller's argument and D the Euclidean
\* distances between the points of the group (squared: h_dist^2 * max(D)^2).
C2_CutAtHDist ==
    Clustered =>
        /\ threshold.den = 100 * 100
        /\ threshold.num = h_dist * h_dist * MaxSqDist(descriptor_cluster)

---------------------------------------------------------------------------
(* C3 *)

\* the four Hydrophobic points of the scenario: (0,0,0), (0.1,0,0),
\* (10,0,0), (10.1,0,0)
TwoPairs ==
    <<Row("Hydrophobic", <<0, 0, 0>>), Row("Hydrophobic", <<1, 0, 0>>),
      Row("Hydrophobic", <<100, 0, 0>>), Row("Hydrophobic", <<101, 0, 0>>)>>

\* a consensus row at the midpoint of the points (a,0,0) and (b,0,0), of
\* weight 2 and radius at least 1
MidpointRow(row, a, b) ==
    /\ row.name = "Hydrophobic"
    /\ 2 * row.x.num = (a + b) * row.x.den
    /\ row.y.num = 0
    /\ row.z.num = 0
    /\ row.weight = 2
    /\ row.radius.num >= HydrophobicFloor * HydrophobicFloor * row.radius.den

\* C3: on the two tight pairs with h_dist = 0.17 the clusterer makes exactly
\* 2 clusters, one per pair, and the result has exactly 2 rows, each at its
\* pair's midpoint with weight 2 and radius at least 1.
C3_TwoPairs ==
    (table = TwoPairs /\ h_dist = CutFactor) =>
        /\ Clustered =>
              /\ ClusterIds(descriptor_cluster) = {1, 2}
              /\ descriptor_cluster[1].cluster = descriptor_cluster[2].cluster
              /\ descriptor_cluster[3].cluster = descriptor_cluster[4].cluster
              /\ descriptor_cluster[1].cluster # descriptor_cluster[3].cluster
        /\ pc = "done" =>
              /\ DOMAIN Concensus = 1..2
              /\ \E k \in 1..2 : MidpointRow(Concensus[k], 0, 1)
              /\ \E k \in 1..2 : MidpointRow(Concensus[k], 100, 101)

C3_Witness == table = TwoPairs /\ h_dist = CutFactor /\ pc = "done"

---------------------------------------------------------------------------
(* C4 *)

\* C4: in a group of more than 2 points every point has one cluster id and
\* the ids used are exactly 1..k for some k >= 1; they restart at 1 in each
\* group.
C4_DenseClusterIds ==
    Clustered =>
        /\ Len(get_group(table, group)) > 2
        /\ Len(descriptor_cluster) = Len(get_group(table, group))
        /\ \A i \in 1..Len(descriptor_cluster) :
              /\ Coords(descriptor_cluster[i]) = Coords(get_group(table, group)[i])
              /\ descriptor_cluster[i].cluster \in 1..Len(descriptor_cluster)
        /\ \E k \in 1..Len(descriptor_cluster) :
              ClusterIds(descriptor_cluster) = 1..k

\* the second group is clustered into several clusters, id 1 among them,
\* while the table already holds a row of another type with cluster id 1
C4_Witness ==
    /\ Clustered
    /\ gi = 2
    /\ {1, 2} \subseteq ClusterIds(descriptor_cluster)
    /\ \E k \in DOMAIN Concensus :
          Concensus[k].name # group /\ Concensus[k].cluster = 1

---------------------------------------------------------------------------
(* C5 *)

\* the clusterer has been invoked on group number i of the table
Invoked(i) == i < gi \/ (i = gi /\ pc # "group")

\* C5 as stated: in every type-group each point has a weight, the count of
\* the points of the group within 1.5 of it, and a balance, and the balances
\* of the group sum to 1.
C5_EveryGroupWeighted ==
    \A i \in 1..Len(groups(table)) :
        Invoked(i) =>
            LET rows == compute_cluster(get_group(table, groups(table)[i])).table
            IN  /\ \A j \in 1..Len(rows) :
                      /\ {"weight", "balance"} \subseteq DOMAIN rows[j]
                      /\ rows[j].weight >= 1
                /\ LET total == RatSum([j \in 1..Len(rows) |-> rows[j].balance])
                   IN  total.num = total.den

\* C5, amended: in every type-group of more than 2 points each point's
\* weight is the count of the points of the group (itself included) within
\* 1.5 of it, so at least 1; its balance is weight / sum of the group's
\* weights; and the balances of the group sum to 1.
C5_WeightsAndBalance ==
    Clustered =>
        LET rows == descriptor_cluster
            n == Len(rows)
            total == SumSeq([i \in 1..n |-> rows[i].weight])
            sum == RatSum([i \in 1..n |-> rows[i].balance])
        IN  /\ \A i \in 1..n :
                  /\ rows[i].weight =
                        Cardinality({j \in 1..n :
                            SqDist(Coords(rows[i]), Coords(rows[j]))
                                <= Proximity * Proximity})
                  /\ rows[i].weight >= 1
                  /\ rows[i].balance.num * total = rows[i].weight * rows[i].balance.den
            /\ sum.num = sum.den

\* a clustered group whose points have different weights
C5_Witness ==
    /\ Clustered
    /\ \E i, j \in 1..Len(descriptor_cluster) :
          descriptor_cluster[i].weight = 1 /\ descriptor_cluster[j].weight > 1

---------------------------------------------------------------------------
(* C6 *)

\* C6: every row of the consensus table has a radius at least 1 when its
\* type is Hydrophobic and at least 0.5 otherwise; a raw radius at or above
\* the floor is returned unchanged.
C6_RadiusFloor ==
    \A k \in DOMAIN Concensus :
        LET row == Concensus[k]
            floor == FloorOf(row.name)
        IN  /\ row.radius.num >= floor * floor * row.radius.den
            /\ (pc = "reduce" /\ row.name = group) =>
                  LET raw == raw_radius(get_cluster(descriptor_cluster, row.cluster))
                  IN  raw.num >= floor * floor * raw.den => row.radius = raw

\* a row whose radius is above its floor lies beside a row clamped to it
C6_Witness ==
    /\ pc = "reduce"
    /\ \E k \in DOMAIN Concensus :
          /\ Concensus[k].name = group
          /\ Concensus[k].radius.num
                > FloorOf(group) * FloorOf(group) * Concensus[k].radius.den
    /\ \E k \in DOMAIN Concensus :
          Concensus[k].radius = [num |-> FloorOf(group) * FloorOf(group), den |-> 1]

---------------------------------------------------------------------------
(* C7 *)

\* row a comes before row b in feature-type-then-cluster order
RowBefore(a, b) ==
    \/ NamePos(a.name) < NamePos(b.name)
    \/ a.name = b.name /\ a.cluster < b.cluster

C7_State ==
    /\ DOMAIN Concensus = 1..(index - 1)
    /\ \A k \in 1..(index - 2) : RowBefore(Concensus[k], Concensus[k + 1])
    /\ \A k \in DOMAIN Concensus : NamePos(Concensus[k].name) <= gi
    /\ \A i \in 1..Len(groups(table)) :
          LET ids == {Concensus[k].cluster : k \in RowsOf(groups(table)[i])}
          IN  /\ (i < gi) => \E m \in 1..(index - 1) : ids = 1..m
              /\ (i = gi /\ pc = "reduce") =>
                    ids = {cluster_groups(descriptor_cluster)[c] : c \in 1..(ci - 1)}
              /\ (i = gi /\ pc # "reduce") => ids = {}
              /\ (i > gi) => ids = {}
    /\ pc = "done" => DOMAIN Links = {table[i].name : i \in 1..Len(table)}

C7_Step ==
    /\ index' >= index
    /\ \A k \in DOMAIN Concensus :
          k \in DOMAIN Concensus' /\ Concensus'[k] = Concensus[k]

\* C7: throughout the assembler loop and at return the consensus table has
\* one row per (feature type, cluster) pair processed so far, indexed 1..n
\* without gap or repeat, in feature-type-then-cluster order, and no step
\* overwrites a row already written; at return Links has one entry per
\* feature type of the input.
C7_OneRowPerPair == [](C7_State) /\ [][C7_Step]_vars

\* the return of a call that wrote rows of two feature types
C7_Witness ==
    /\ pc = "done"
    /\ index > 3
    /\ \E j, k \in DOMAIN Concensus : Concensus[j].name # Concensus[k].name

---------------------------------------------------------------------------
(* C8 *)

\* C8: on a table of N >= 1 identical points of one type the call returns a
\* single row at the shared location, of weight N, balance 1/N and radius
\* the floor of the type; each point's weight is N and balance 1/N.
C8_IdenticalPoints ==
    Identical(table) =>
        /\ error # "UnboundLocalError"
        /\ Clustered =>
              \A i \in 1..Len(descriptor_cluster) :
                  /\ descriptor_cluster[i].weight = Len(table)
                  /\ descriptor_cluster[i].balance.num * Len(table)
                        = descriptor_cluster[i].balance.den
        /\ pc = "done" =>
              /\ DOMAIN Concensus = 1..1
              /\ \A d \in 1..3 :
                    LET c == <<Concensus[1].x, Concensus[1].y, Concensus[1].z>>[d]
                    IN  c.num = Coords(table[1])[d] * c.den
              /\ Concensus[1].weight = Len(table)
              /\ Concensus[1].radius =
                    [num |-> FloorOf(table[1].name) * FloorOf(table[1].name), den |-> 1]

---------------------------------------------------------------------------
(* C9 *)

C9_State ==
    /\ error = "IOError" =>
          /\ pc = "raised"
          /\ save_data_per_descriptor
          /\ RowsOf(group) = {}
          /\ DOMAIN Concensus = 1..(index - 1)
          /\ \A i \in 1..(gi - 1) :
                \E m \in 1..(index - 1) :
                    {Concensus[k].cluster : k \in RowsOf(groups(table)[i])} = 1..m
    /\ ~save_data_per_descriptor => (exported = <<>> /\ error # "IOError")

C9_Step == pc = "raised" => (pc' = "raised" /\ Concensus' = Concensus)

\* C9: with save_data_per_descriptor true, a failing export is surfaced and
\* ends the call: at that moment the consensus table holds the complete rows
\* of every type processed before and no row of the failing type, and
\* nothing resumes afterwards.  With the flag false no export is attempted.
C9_ExportFailure == [](C9_State) /\ [][C9_Step]_vars

\* the export of the second type fails after the first type wrote its rows
C9_Witness == error = "IOError" /\ gi = 2 /\ index > 1

---------------------------------------------------------------------------
(* C10 *)

\* C10: two points with the same cluster id are at Euclidean distance at
\* most 0.17 * max(D), D the Euclidean distances between the points of the
\* group.
C10_ClustersTight ==
    Clustered =>
        \A i, j \in 1..Len(descriptor_cluster) :
            descriptor_cluster[i].cluster = descriptor_cluster[j].cluster =>
                100 * 100 * SqDist(Coords(descriptor_cluster[i]),
                                   Coords(descriptor_cluster[j]))
                    <= CutFactor * CutFactor * MaxSqDist(descriptor_cluster)

====
